---- MODULE Spec2Model ----
(***************************************************************************)
(* Model of the two dashboards of Git-Hub-Recommendation:                  *)
(*   pipeline 1  src/Recommendation_dashboard.py  (recommendations)        *)
(*   pipeline 2  src/dashboard.py                 (analytics)              *)
(* Both share one MongoDB collection (github_db.user_data) and call the    *)
(* GitHub REST API.  The remote API is the environment: every request is   *)
(* answered by a response script chosen nondeterministically.              *)
(***************************************************************************)
EXTENDS Integers, Sequences, FiniteSets, TLC

VARIABLES
  store,     \* the collection: documents in natural (insertion) order
  pc,        \* per session: position in the script run
  pipe,      \* per session: which dashboard the run belongs to (1 or 2)
  uname,     \* per session: the text typed into the username box
  hit,       \* per session: the store held a record for uname at lookup
  shown,     \* per session: what was handed to the presenter
  outcome,   \* per session: how the run ended
  nfetch,    \* per session: calls of the fetcher in this run
  remote,    \* per session: the run sent a request to the remote API
  nwrite,    \* per session: writes to the store in this run
  fetchok,   \* per session: the primary profile request succeeded
  fetched,   \* per session: the record a fetch returned, not yet written
  wrote,     \* the last write: position, the record written, matched or not
  fpu,       \* how floating point rounds scores that are equal as reals
  runs,      \* script runs started so far, over all sessions
  input,     \* fetch / recommend harness: the inputs drawn by Init
  result     \* fetch / recommend harness: what the function returned

vars == <<store, pc, pipe, uname, hit, shown, outcome, nfetch, remote,
          nwrite, fetchok, fetched, wrote, fpu, runs, input, result>>

None == "None"        \* Python None / JSON null / "nothing yet"

----------------------------------------------------------------------------
(* Bounds of the model *)
MaxRuns == 4          \* script runs the sessions start, all together
MaxFaults == 2        \* requests of one fetch that do not answer 200 at once
MaxCorpus == 4        \* documents of a corpus handed to the analyzer
MaxTopN == 2          \* a top_n below the default, to see the truncation
MaxRepos == 2         \* repositories of a drawn repository listing
MaxCommits == 2       \* commits of one repository

(* Program constants *)
Cooldown == 60        \* time.sleep(60)
DefaultTopN == 10     \* get_recommendations(df, username, top_n=10)

Sessions == {"s1", "s2"}
Usernames == {"a", "A"}
Langs == {"Go", "Py"}

----------------------------------------------------------------------------
(* Python dicts, as sets of <<key, value>> pairs with unique keys *)
Keys(d) == {p[1] : p \in d}
DictGet(d, k, default) ==
  IF k \in Keys(d) THEN (CHOOSE p \in d : p[1] = k)[2] ELSE default
DictPut(d, k, v) == {p \in d : p[1] # k} \cup {<<k, v>>}

RECURSIVE SumValues(_)
SumValues(d) ==
  IF d = {} THEN 0
  ELSE LET p == CHOOSE q \in d : TRUE IN p[2] + SumValues(d \ {p})

Min(a, b) == IF a <= b THEN a ELSE b

----------------------------------------------------------------------------
(* The remote API.  GitHub user names are case-insensitive: a profile      *)
(* request for any spelling answers with the canonical login.              *)
Lower(u) == IF u = "A" THEN "a" ELSE u

Profile(l) ==
  [login |-> l,
   name |-> IF l = "a" THEN "Alice" ELSE None,
   bio |-> IF l = "a" THEN "bio of a" ELSE None,
   public_repos |-> IF l = "a" THEN 2 ELSE 1,
   followers |-> IF l = "a" THEN 1 ELSE 0,
   following |-> IF l = "a" THEN 0 ELSE 1,
   created_at |-> "2020-01-01T00:00:00Z",
   updated_at |-> "2024-01-01T00:00:00Z",
   avatar_url |-> "avatar/" \o l,
   html_url |-> "github.com/" \o l]

RemoteFollowers(l) == IF l = "a" THEN <<"b">> ELSE <<>>
RemoteFollowing(l) == IF l = "a" THEN <<>> ELSE <<"a">>
RemoteStarred(l) == IF l = "a" THEN <<"github.com/b/r3">> ELSE <<>>
RemoteSubscriptions(l) == IF l = "a" THEN <<"github.com/a/r1">> ELSE <<>>
RemoteOrgs(l) == IF l = "a" THEN <<"org1">> ELSE <<>>

(* A repository of the repos listing; langs is the body of languages_url *)
Repo(n, lang, f, sz, st, ls) ==
  [name |-> n, language |-> lang, fork |-> f, size |-> sz,
   stargazers_count |-> st, langs |-> ls]

RemoteRepos(l) ==
  IF l = "a"
  THEN << Repo("r1", "Py", FALSE, 3, 2, {<<"Py", 3>>, <<"Go", 1>>}),
          Repo("r2", "Go", TRUE, 2, 0, {<<"Go", 2>>}) >>
  ELSE << Repo("r1", "Go", FALSE, 1, 1, {<<"Go", 1>>}) >>

(* The commits of a repository: n commits; link is the shape of the Link   *)
(* header of the per_page=1 listing ("last": rel="last" with page=n).      *)
Commits(n, link) == [n |-> n, link |-> link]
RemoteCommits == [r \in {"r1", "r2", "Unknown"} |->
                    IF r = "r1" THEN Commits(2, "last")
                    ELSE IF r = "r2" THEN Commits(1, "none")
                    ELSE Commits(0, "none")]

(* Response scripts: the statuses of the successive attempts of one        *)
(* request; "exc" is requests.get raising (no response at all).            *)
OK == <<"200">>
BadScripts == { <<"403", "200">>, <<"403", "403">>, <<"404">>, <<"exc">>,
                <<"403", "exc">> }
Attempt(script, k) == script[Min(k, Len(script))]

Get(site, status) == [op |-> "get", site |-> site, status |-> status]
Sleep(site) == [op |-> "sleep", site |-> site, secs |-> Cooldown]

----------------------------------------------------------------------------
(* Pipeline 1: GitHub API helper functions *)

(* get_json without line 36, response.raise_for_status() *)
get_json_NoRaise(w, site) ==
  LET r1 == Attempt(w.resp[site], 1)
      r2 == Attempt(w.resp[site], 2)
  IN IF r1 = "403"
     THEN [ok |-> r2 # "exc",
           trace |-> <<Get(site, r1), Sleep(site), Get(site, r2)>>]
     ELSE [ok |-> r1 # "exc", trace |-> <<Get(site, r1)>>]

(* get_json: one retry after a 60 s sleep on 403, then raise_for_status *)
get_json(w, site) ==
  LET r1 == Attempt(w.resp[site], 1)
      r2 == Attempt(w.resp[site], 2)
  IN IF r1 = "403"
     THEN [ok |-> r2 = "200",
           trace |-> <<Get(site, r1), Sleep(site), Get(site, r2)>>]
     ELSE [ok |-> r1 = "200", trace |-> <<Get(site, r1)>>]

(* get_list / get_starred_or_subs: [] on any exception *)
get_list(w, site, body) ==
  LET r == get_json(w, site)
  IN [val |-> IF r.ok THEN body ELSE <<>>, trace |-> r.trace]

get_starred_or_subs(w, site, body) ==
  LET r == get_json(w, site)
  IN [val |-> IF r.ok THEN body ELSE <<>>, trace |-> r.trace]

RECURSIVE AddLangs(_, _)
AddLangs(acc, langs) ==
  IF langs = {} THEN acc
  ELSE LET p == CHOOSE q \in langs : TRUE
       IN AddLangs(DictPut(acc, p[1], DictGet(acc, p[1], 0) + p[2]),
                   langs \ {p})

RECURSIVE LanguagesLoop(_, _, _, _)
LanguagesLoop(w, i, acc, trace) ==
  IF i > Len(w.repos) THEN [val |-> acc, trace |-> trace]
  ELSE LET r == get_json(w, <<"languages", i>>)
       IN IF ~r.ok THEN [val |-> {}, trace |-> trace \o r.trace]
          ELSE LanguagesLoop(w, i + 1, AddLangs(acc, w.repos[i].langs),
                             trace \o r.trace)

get_languages(w) ==
  LET r == get_json(w, <<"repos", 1>>)
  IN IF ~r.ok THEN [val |-> {}, trace |-> r.trace]
     ELSE LanguagesLoop(w, 1, {}, r.trace)

RECURSIVE CommitsLoop(_, _, _, _)
CommitsLoop(w, i, total, trace) ==
  IF i > Len(w.repos) THEN [val |-> total, trace |-> trace]
  ELSE IF w.repos[i].fork THEN CommitsLoop(w, i + 1, total, trace)
  ELSE LET site == <<"commits", i>>
           st == Attempt(w.resp[site], 1)
           items == Min(w.commits[w.repos[i].name].n, 1)   \* per_page=1
       IN IF st = "exc"
          THEN [val |-> 0, trace |-> Append(trace, Get(site, st))]
          ELSE CommitsLoop(w, i + 1,
                           IF st = "200" THEN total + items ELSE total,
                           Append(trace, Get(site, st)))

get_total_commits(w) ==
  LET r == get_json(w, <<"repos", 2>>)
  IN IF ~r.ok THEN [val |-> 0, trace |-> r.trace]
     ELSE CommitsLoop(w, 1, 0, r.trace)

(* The record built by fetch_and_store_user (lines 83-102); ok is FALSE    *)
(* when the profile request raises (the function then returns None);      *)
(* trace is every request sent and every sleep, in order                  *)
UserData(username, w) ==
  LET u == get_json(w, <<"user", 0>>)
      l == Lower(username)
      user == Profile(l)
      f1 == get_list(w, <<"followers", 0>>, RemoteFollowers(l))
      f2 == get_list(w, <<"following", 0>>, RemoteFollowing(l))
      s1 == get_starred_or_subs(w, <<"starred", 0>>, RemoteStarred(l))
      s2 == get_starred_or_subs(w, <<"subscriptions", 0>>,
                                RemoteSubscriptions(l))
      og == get_list(w, <<"orgs", 0>>, RemoteOrgs(l))
      lg == get_languages(w)
      tc == get_total_commits(w)
  IN IF ~u.ok THEN [ok |-> FALSE, data |-> None, trace |-> u.trace]
     ELSE [ok |-> TRUE, data |->
             ("Login" :> user.login) @@ ("Name" :> user.name) @@
             ("Bio" :> user.bio) @@
             ("Public Repositories" :> user.public_repos) @@
             ("Followers Count" :> user.followers) @@
             ("Following Count" :> user.following) @@
             ("Created At" :> user.created_at) @@
             ("Updated At" :> user.updated_at) @@
             ("Avatar URL" :> user.avatar_url) @@
             ("Profile URL" :> user.html_url) @@
             ("Followers List" :> f1.val) @@
             ("Following List" :> f2.val) @@
             ("Starred Repositories" :> s1.val) @@
             ("Subscriptions" :> s2.val) @@
             ("Organizations" :> og.val) @@
             ("Languages" :> lg.val) @@
             ("Total Commits" :> tc.val),
           trace |-> u.trace \o f1.trace \o f2.trace \o s1.trace \o s2.trace
                     \o og.trace \o lg.trace \o tc.trace]

----------------------------------------------------------------------------
(* Pipeline 2: dashboard.py.  Every request is a bare requests.get: one    *)
(* attempt, any status but 200 is a failure, an exception propagates.      *)

RepoName(repo) == IF repo.name = None THEN "Unknown" ELSE repo.name
RepoLang(repo) == IF repo.language = None THEN "Unknown" ELSE repo.language
(* the key of the second lookup, line 86: repo.get("name") or "" *)
NameOrEmpty(repo) == IF repo.name = None THEN "" ELSE repo.name

(* get_commit_count: the value returned when the request answers at all *)
get_commit_count(w, repo_name, st) ==
  LET c == w.commits[repo_name]
  IN IF st # "200" THEN 0
     ELSE IF c.link = "last" THEN c.n          \* int(page=N of rel="last")
     ELSE IF c.link = "bad" THEN 0             \* int() raises: except -> 0
     ELSE Min(c.n, 1)                          \* len(resp.json()), per_page=1

CommitDate(repo_name, k) == <<"datetime", repo_name, k>>
CommitDates(w, repo_name) ==
  [k \in 1..w.commits[repo_name].n |-> CommitDate(repo_name, k)]

(* the loop of lines 63-82; acc.raised is set when a request raises *)
RECURSIVE ReposLoop(_, _, _, _)
ReposLoop(w, repos, i, acc) ==
  IF i > Len(repos) \/ acc.raised THEN acc
  ELSE LET repo == repos[i]
           lang == RepoLang(repo)
           repo_name == RepoName(repo)
           s1 == <<"commit_count", i>>
           s2 == <<"commit_list", i>>
           st1 == Attempt(w.resp[s1], 1)
           st2 == Attempt(w.resp[s2], 1)
           acc1 == [acc EXCEPT
                      !.languages = DictPut(@, lang,
                                      DictGet(@, lang, 0) + repo.size),
                      !.stars_per_language = DictPut(@, lang,
                                      DictGet(@, lang, 0)
                                        + repo.stargazers_count),
                      !.stars_per_repo = DictPut(@, repo_name,
                                                 repo.stargazers_count),
                      !.trace = Append(@, Get(s1, st1))]
           acc2 == [acc1 EXCEPT
                      !.commits_per_repo = DictPut(@, repo_name,
                                      get_commit_count(w, repo_name, st1)),
                      !.trace = Append(@, Get(s2, st2))]
       IN IF st1 = "exc" THEN [acc1 EXCEPT !.raised = TRUE]
          ELSE IF st2 = "exc" THEN [acc2 EXCEPT !.raised = TRUE]
          ELSE ReposLoop(w, repos, i + 1,
                 IF st2 = "200"
                 THEN [acc2 EXCEPT
                         !.commit_dates = @ \o CommitDates(w, repo_name)]
                 ELSE acc2)

RECURSIVE SumCommits(_, _, _, _)
SumCommits(repos, i, lang, commits_per_repo) ==
  IF i > Len(repos) THEN 0
  ELSE (IF RepoLang(repos[i]) = lang
        THEN DictGet(commits_per_repo, NameOrEmpty(repos[i]), 0)
        ELSE 0)
       + SumCommits(repos, i + 1, lang, commits_per_repo)

(* lines 84-88 *)
CommitsPerLanguage(repos, languages, commits_per_repo) ==
  {<<lang, SumCommits(repos, 1, lang, commits_per_repo)>> :
     lang \in Keys(languages)}

(* fetch_user_data: kind is "record", "none" (return None) or "raise" *)
fetch_user_data(username, w) ==
  LET l == Lower(username)
      user_json == Profile(l)
      su == <<"user", 0>>
      sr == <<"repos", 0>>
      ss == <<"starred", 0>>
      stu == Attempt(w.resp[su], 1)
      str == Attempt(w.resp[sr], 1)
      sts == Attempt(w.resp[ss], 1)
      repos == IF str = "200" THEN w.repos ELSE <<>>
      starred == IF sts = "200" THEN RemoteStarred(l) ELSE <<>>
      tr3 == <<Get(su, stu), Get(sr, str), Get(ss, sts)>>
      acc == ReposLoop(w, repos, 1,
               [languages |-> {}, commits_per_repo |-> {},
                stars_per_repo |-> {}, stars_per_language |-> {},
                commit_dates |-> <<>>, trace |-> tr3, raised |-> FALSE])
  IN IF stu = "exc"
     THEN [kind |-> "raise", data |-> None, trace |-> <<Get(su, stu)>>]
     ELSE IF stu # "200"
     THEN [kind |-> "none", data |-> None, trace |-> <<Get(su, stu)>>]
     ELSE IF str = "exc"
     THEN [kind |-> "raise", data |-> None,
           trace |-> <<Get(su, stu), Get(sr, str)>>]
     ELSE IF sts = "exc"
     THEN [kind |-> "raise", data |-> None, trace |-> tr3]
     ELSE IF acc.raised
     THEN [kind |-> "raise", data |-> None, trace |-> acc.trace]
     ELSE [kind |-> "record", data |->
             ("Login" :> username) @@
             ("Name" :> IF user_json.name = None THEN username
                        ELSE user_json.name) @@
             ("Avatar URL" :> user_json.avatar_url) @@
             ("Profile URL" :> user_json.html_url) @@
             ("Bio" :> IF user_json.bio = None THEN "" ELSE user_json.bio) @@
             ("Created At" :> user_json.created_at) @@
             ("Followers Count" :> user_json.followers) @@
             ("Following Count" :> user_json.following) @@
             ("Public Repositories" :> user_json.public_repos) @@
             ("Languages" :> acc.languages) @@
             ("Commits Per Repo" :> acc.commits_per_repo) @@
             ("Stars Per Repo" :> acc.stars_per_repo) @@
             ("Stars Per Language" :> acc.stars_per_language) @@
             ("Commits Per Language" :>
                CommitsPerLanguage(repos, acc.languages,
                                   acc.commits_per_repo)) @@
             ("Starred Repositories" :> starred) @@
             ("Commit Dates" :> acc.commit_dates) @@
             ("Platforms" :> <<"Linux", "Windows", "macOS">>) @@
             ("Web Frameworks" :>
                {<<"Django", 3>>, <<"Flask", 2>>, <<"React", 5>>}) @@
             ("Total Commits" :> SumValues(acc.commits_per_repo)),
           trace |-> acc.trace]

----------------------------------------------------------------------------
(* The worlds a fetch may meet: the response script of every request it    *)
(* can send, the repository listing and the commits of each repository.    *)
RepoIdx(repos) == 1..Len(repos)
Sites1(repos) ==
  {<<"user", 0>>, <<"followers", 0>>, <<"following", 0>>, <<"starred", 0>>,
   <<"subscriptions", 0>>, <<"orgs", 0>>, <<"repos", 1>>, <<"repos", 2>>}
  \cup {<<"languages", i>> : i \in RepoIdx(repos)}
  \cup {<<"commits", i>> : i \in RepoIdx(repos)}
Sites2(repos) ==
  {<<"user", 0>>, <<"repos", 0>>, <<"starred", 0>>}
  \cup {<<"commit_count", i>> : i \in RepoIdx(repos)}
  \cup {<<"commit_list", i>> : i \in RepoIdx(repos)}
SitesOf(p, repos) == IF p = 1 THEN Sites1(repos) ELSE Sites2(repos)

(* the sets of at most k sites of `faulty` that do not answer 200 at the   *)
(* first attempt, and the assignment of scripts that makes F fail as g     *)
FaultSets(sites, faulty, k) ==
  {G \in SUBSET (faulty \cap sites) : Cardinality(G) <= k}
Resp(sites, F, g) == [s \in sites |-> IF s \in F THEN g[s] ELSE OK]
FaultyResp(sites, faulty, k) ==
  UNION { { Resp(sites, F, g) : g \in [F -> BadScripts] } :
          F \in FaultSets(sites, faulty, k) }

World(resp, repos, commits) ==
  [resp |-> resp, repos |-> repos, commits |-> commits]

----------------------------------------------------------------------------
(* The store: pymongo on collection user_data, no unique index on Login *)

Login(doc) == doc["Login"]

(* position of the first document matching {"Login": username}, 0 if none *)
FindIdx(st, username) ==
  IF \E i \in 1..Len(st) : Login(st[i]) = username
  THEN CHOOSE i \in 1..Len(st) :
         /\ Login(st[i]) = username
         /\ \A j \in 1..(i - 1) : Login(st[j]) # username
  ELSE 0

(* {"$set": data}: the fields of data are set, every other field is kept *)
SetFields(doc, data) == data @@ doc

(* collection.update_one({"Login": username}, {"$set": data}, upsert=True) *)
update_one(st, username, data) ==
  LET i == FindIdx(st, username)
  IN IF i > 0 THEN [st EXCEPT ![i] = SetFields(st[i], data)]
     ELSE Append(st, data)

(* collection.insert_one(user) *)
insert_one(st, doc) == Append(st, doc)

----------------------------------------------------------------------------
(* Pipeline 1: preprocessing and the analyzer *)

HasLanguages(doc) == Keys(doc["Languages"]) # {}
WithLanguagesList(doc) == ("LanguagesList" :> Keys(doc["Languages"])) @@ doc

(* preprocess_languages: rows with an empty LanguagesList are dropped *)
preprocess_languages(rows) ==
  LET kept == SelectSeq(rows, HasLanguages)
  IN [i \in 1..Len(kept) |-> WithLanguagesList(kept[i])]

(* load_data: an empty collection gives pd.DataFrame(), a frame with no    *)
(* columns at all                                                          *)
load_data(st) ==
  IF st = <<>> THEN [columns |-> FALSE, rows |-> <<>>]
  ELSE [columns |-> TRUE, rows |-> preprocess_languages(st)]

InFrame(frame, username) ==
  \E i \in 1..Len(frame.rows) : Login(frame.rows[i]) = username

(* cosine similarity of two binary rows with language sets A and B is      *)
(* |A \cap B| / sqrt(|A| * |B|); kept exact as the numbers k and |A|*|B|  *)
Similarity(A, B) ==
  [k |-> Cardinality(A \cap B), ab |-> Cardinality(A) * Cardinality(B)]

(* two similarities are the same real number *)
SameReal(s1, s2) == s1.k * s1.k * s2.ab = s2.k * s2.k * s1.ab

(* The code compares floats.  The float of a score is a function of its    *)
(* operands: within one ranking the target is fixed, so k and ab determine *)
(* it.  Two scores that differ as reals differ by far more than the        *)
(* rounding of a float.  Scores that are the same real but come from       *)
(* different operands (as 1/sqrt(5) and 3/sqrt(45)) may differ in the last *)
(* bits: fpu gives each such operand pair the rounding of its float        *)
(* against the real, -1 below, 0 exact, 1 above, so that any order of the  *)
(* floats of up to three tied operand pairs is one of its values.  A score *)
(* of 0 is the float 0.0 whatever its operands.                            *)
FloatRoundings == {-1, 0, 1}
NoRounding == <<>>
Err(s) == IF s \in DOMAIN fpu THEN fpu[s] ELSE 0
ScoreGE(s1, s2) ==
  IF SameReal(s1, s2) THEN Err(s1) >= Err(s2)
  ELSE s1.k * s1.k * s2.ab > s2.k * s2.k * s1.ab

(* round(score, 3) in thousandths.  Python rounds a value half way        *)
(* between two thousandths to the even one: the result is the largest n   *)
(* in lo..hi with n - 1/2 < 1000 * k / sqrt(ab), or with equality and n    *)
(* even.                                                                   *)
RECURSIVE RoundSearch(_, _, _)
RoundSearch(s, lo, hi) ==
  IF lo = hi THEN lo
  ELSE LET mid == (lo + hi + 1) \div 2
           below == (2 * mid - 1) * (2 * mid - 1) * s.ab
           score == 4000000 * s.k * s.k
       IN IF below < score \/ (below = score /\ mid % 2 = 0)
          THEN RoundSearch(s, mid, hi)
          ELSE RoundSearch(s, lo, mid - 1)
Round3(s) == RoundSearch(s, 0, 1000)

(* a descending sort that puts an element before its equals *)
InsertByScore_Unstable(sorted, e) ==
  LET n == Cardinality({i \in 1..Len(sorted) :
                          ~ScoreGE(e.score, sorted[i].score)})
  IN SubSeq(sorted, 1, n) \o <<e>> \o SubSeq(sorted, n + 1, Len(sorted))

(* sorted(sim_scores, key=score, reverse=True): a stable sort, so an       *)
(* element goes after every element already placed whose score is >= its   *)
InsertByScore(sorted, e) ==
  LET n == Cardinality({i \in 1..Len(sorted) :
                          ScoreGE(sorted[i].score, e.score)})
  IN SubSeq(sorted, 1, n) \o <<e>> \o SubSeq(sorted, n + 1, Len(sorted))

RECURSIVE SortedScores(_, _)
SortedScores(scores, i) ==
  IF i = 0 THEN <<>>
  ELSE InsertByScore(SortedScores(scores, i - 1), scores[i])

(* the slice [:top_n] for top_n >= 0 *)
Take(seq, n) == SubSeq(seq, 1, Min(n, Len(seq)))

(* df.index[df['Login'] == username][0]: the first row of the login *)
UserIdx(rows, username) ==
  CHOOSE i \in 1..Len(rows) :
    /\ Login(rows[i]) = username
    /\ \A j \in 1..(i - 1) : Login(rows[j]) # username

(* the scores of one ranking that are the same real as a score computed    *)
(* from other operands: the scores whose floats may differ by rounding     *)
TiedScores(frame, username) ==
  IF ~frame.columns \/ ~InFrame(frame, username) THEN {}
  ELSE LET rows == frame.rows
           user_idx == UserIdx(rows, username)
           scores == { Similarity(rows[user_idx]["LanguagesList"],
                                  rows[i]["LanguagesList"]) :
                         i \in (1..Len(rows)) \ {user_idx} }
       IN { s1 \in scores :
              s1.k > 0 /\ \E s2 \in scores : s2 # s1 /\ SameReal(s1, s2) }

(* get_recommendations: kind is "KeyError" (no Login column), "none"       *)
(* (return None) or "list"                                                 *)
get_recommendations(frame, username, top_n) ==
  IF ~frame.columns THEN [kind |-> "KeyError", recs |-> <<>>]
  ELSE IF ~InFrame(frame, username) THEN [kind |-> "none", recs |-> <<>>]
  ELSE
    LET rows == frame.rows
        user_idx == UserIdx(rows, username)
        user_langs == rows[user_idx]["LanguagesList"]
        others == SelectSeq([i \in 1..Len(rows) |-> i],
                            LAMBDA i : i # user_idx)
        sim_scores == [n \in 1..Len(others) |->
                         [idx |-> others[n],
                          score |-> Similarity(user_langs,
                                      rows[others[n]]["LanguagesList"])]]
        top == Take(SortedScores(sim_scores, Len(sim_scores)), top_n)
    IN [kind |-> "list",
        recs |-> [n \in 1..Len(top) |->
                    LET rec_user == rows[top[n].idx]
                    IN [Login |-> Login(rec_user),
                        ProfileURL |-> rec_user["Profile URL"],
                        CommonLanguages |->
                          user_langs \cap rec_user["LanguagesList"],
                        SimilarityScore |-> Round3(top[n].score),
                        Avatar |-> rec_user["Avatar URL"],
                        row |-> top[n].idx]]]   \* (ghost) row of the frame

----------------------------------------------------------------------------
(* The dashboards.  A session is one browser session; every interaction    *)
(* reruns the script from the top.  A run is split where it reads or       *)
(* writes the collection: other sessions may act in between.               *)

Requests(trace) == Cardinality({i \in 1..Len(trace) : trace[i].op = "get"})

(* the last answer to the profile request was a 200 *)
ProfileOK(trace) ==
  \E i \in 1..Len(trace) :
    /\ trace[i].op = "get" /\ trace[i].site = <<"user", 0>>
    /\ trace[i].status = "200"
    /\ \A j \in (i + 1)..Len(trace) : trace[j].site # <<"user", 0>>

(* while sessions run, one of the requests that decide a run (the profile, *)
(* the repository listing) may fail; every other request answers 200      *)
SessionFaultSites == {<<"user", 0>>, <<"repos", 0>>, <<"repos", 1>>}
SessionWorlds(p, username) ==
  LET repos == RemoteRepos(Lower(username))
  IN { World(resp, repos, RemoteCommits) :
         resp \in FaultyResp(SitesOf(p, repos), SessionFaultSites, 1) }

NoWrite == [idx |-> 0, matched |-> FALSE, data |-> <<>>]
NoInput == [pipeline |-> 0]
NoRecord == [kind |-> "none", data |-> None]
Pending == [kind |-> "pending", data |-> None, trace |-> <<>>]

(* Every repository of the fixed remote has languages among Go and Py:    *)
(* over them no two scores of one ranking are the same real unless they   *)
(* come from the same operands, so no float is subject to a rounding.      *)
Init ==
  /\ store = <<>>
  /\ pc = [s \in Sessions |-> "idle"]
  /\ pipe = [s \in Sessions |-> 1]
  /\ uname = [s \in Sessions |-> ""]
  /\ hit = [s \in Sessions |-> FALSE]
  /\ shown = [s \in Sessions |-> <<>>]
  /\ outcome = [s \in Sessions |-> "idle"]
  /\ nfetch = [s \in Sessions |-> 0]
  /\ remote = [s \in Sessions |-> FALSE]
  /\ nwrite = [s \in Sessions |-> 0]
  /\ fetchok = [s \in Sessions |-> FALSE]
  /\ fetched = [s \in Sessions |-> NoRecord]
  /\ wrote = NoWrite
  /\ input = NoInput
  /\ result = Pending
  /\ fpu = NoRounding
  /\ runs = 0

Idle(s) == pc[s] \in {"idle", "done"}

(* a run starts: the counts of the previous run are gone; what the run    *)
(* displays is set where the run ends or goes on to fetch.  The sessions   *)
(* start MaxRuns runs; a run that has started always runs to its end.      *)
StartRun(s, p, u) ==
  /\ runs < MaxRuns
  /\ runs' = runs + 1
  /\ pipe' = [pipe EXCEPT ![s] = p]
  /\ uname' = [uname EXCEPT ![s] = u]
  /\ hit' = [hit EXCEPT ![s] = FindIdx(store, u) > 0]
  /\ nfetch' = [nfetch EXCEPT ![s] = 0]
  /\ remote' = [remote EXCEPT ![s] = FALSE]
  /\ nwrite' = [nwrite EXCEPT ![s] = 0]
  /\ fetchok' = [fetchok EXCEPT ![s] = FALSE]

(* the run goes on to the fetcher: the page shows nothing yet *)
GoFetch(s) ==
  /\ pc' = [pc EXCEPT ![s] = "fetch"]
  /\ outcome' = [outcome EXCEPT ![s] = "running"]
  /\ shown' = [shown EXCEPT ![s] = <<>>]

(* a run ends *)
EndRun(s, how, display) ==
  /\ pc' = [pc EXCEPT ![s] = "done"]
  /\ outcome' = [outcome EXCEPT ![s] = how]
  /\ shown' = [shown EXCEPT ![s] = display]

(* Recommendation_dashboard.py lines 162-179: df = load_data(), the text   *)
(* input and the button handler up to its next access to the collection.  *)
(* The frame is read once, so each branch is one step.                    *)

(* line 168: no username typed *)
Rec_Warning(s) ==
  /\ Idle(s)
  /\ StartRun(s, 1, "")
  /\ EndRun(s, "warning", <<>>)
  /\ UNCHANGED <<store, fetched, wrote, input, result, fpu>>

(* line 171 on pd.DataFrame(): df['Login'] raises KeyError *)
Rec_KeyError(s, u) ==
  /\ Idle(s)
  /\ ~load_data(store).columns
  /\ StartRun(s, 1, u)
  /\ EndRun(s, "KeyError", <<>>)
  /\ UNCHANGED <<store, fetched, wrote, input, result, fpu>>

(* line 171 false: the user is in the frame; recommend from it *)
Rec_Cached(s, u) ==
  /\ Idle(s)
  /\ load_data(store).columns
  /\ InFrame(load_data(store), u)
  /\ StartRun(s, 1, u)
  /\ LET r == get_recommendations(load_data(store), u, DefaultTopN)
     IN IF r.kind = "list" /\ r.recs # <<>>
        THEN EndRun(s, "shown", r.recs)
        ELSE EndRun(s, "norecs", <<>>)
  /\ UNCHANGED <<store, fetched, wrote, input, result, fpu>>

(* line 171 true: the user is not in the frame *)
Rec_NotInFrame(s, u) ==
  /\ Idle(s)
  /\ load_data(store).columns
  /\ ~InFrame(load_data(store), u)
  /\ StartRun(s, 1, u)
  /\ GoFetch(s)
  /\ UNCHANGED <<store, fetched, wrote, input, result, fpu>>

(* lines 172-173 with fetch_and_store_user lines 81-102: the requests.    *)
(* A failure ends the run (lines 105-107, 176-177: st.error, st.stop); a   *)
(* success leaves data to be written.  The requests block, and wait 60 s   *)
(* on a 403, while other sessions run.                                     *)
fetch_and_store_user(s) ==
  /\ pc[s] = "fetch" /\ pipe[s] = 1
  /\ \E w \in SessionWorlds(1, uname[s]) :
       LET r == UserData(uname[s], w)
       IN /\ nfetch' = [nfetch EXCEPT ![s] = @ + 1]
          /\ remote' = [remote EXCEPT ![s] = Requests(r.trace) > 0]
          /\ fetchok' = [fetchok EXCEPT ![s] = ProfileOK(r.trace)]
          /\ IF r.ok
             THEN /\ fetched' = [fetched EXCEPT ![s] =
                                   [kind |-> "record", data |-> r.data]]
                  /\ pc' = [pc EXCEPT ![s] = "store"]
                  /\ UNCHANGED <<outcome, shown>>
             ELSE /\ EndRun(s, "stopped", <<>>)
                  /\ UNCHANGED fetched
  /\ UNCHANGED <<store, pipe, uname, hit, nwrite, wrote, input, result,
                 fpu, runs>>

(* fetch_and_store_user lines 103-104: the upsert of the fetched data *)
Rec_update_one(s) ==
  /\ pc[s] = "store" /\ pipe[s] = 1
  /\ LET i == FindIdx(store, uname[s])
         data == fetched[s].data
     IN /\ store' = update_one(store, uname[s], data)
        /\ wrote' = [idx |-> IF i > 0 THEN i ELSE Len(store) + 1,
                     matched |-> i > 0, data |-> data]
  /\ nwrite' = [nwrite EXCEPT ![s] = @ + 1]
  /\ fetched' = [fetched EXCEPT ![s] = NoRecord]
  /\ pc' = [pc EXCEPT ![s] = "reload"]
  /\ UNCHANGED <<pipe, uname, hit, shown, outcome, nfetch, remote, fetchok,
                 input, result, fpu, runs>>

(* lines 175 and 179-209: df = load_data() after the fetch, rank, then     *)
(* warn or render the cards                                                *)
Rec_Reload(s) ==
  /\ pc[s] = "reload" /\ pipe[s] = 1
  /\ LET r == get_recommendations(load_data(store), uname[s], DefaultTopN)
     IN IF r.kind = "list" /\ r.recs # <<>>
        THEN EndRun(s, "shown", r.recs)
        ELSE EndRun(s, "norecs", <<>>)
  /\ UNCHANGED <<store, pipe, uname, hit, nfetch, remote, nwrite, fetchok,
                 fetched, wrote, input, result, fpu, runs>>

(* dashboard.py lines 116-120: collection.find_one({"Login": username});   *)
(* a record found is rendered as it is                                     *)
Dash_find_one(s, u) ==
  /\ Idle(s)
  /\ StartRun(s, 2, u)
  /\ LET i == FindIdx(store, u)
     IN IF u = "" THEN EndRun(s, "blank", <<>>)
        ELSE IF i > 0 THEN EndRun(s, "shown", <<store[i]>>)
        ELSE GoFetch(s)
  /\ UNCHANGED <<store, fetched, wrote, input, result, fpu>>

(* lines 121-122 and 125-127: fetch_user_data; None stops the run with an *)
(* error, an exception of requests ends it.  The requests block while      *)
(* other sessions run.                                                     *)
Dash_fetch_user_data(s) ==
  /\ pc[s] = "fetch" /\ pipe[s] = 2
  /\ \E w \in SessionWorlds(2, uname[s]) :
       LET r == fetch_user_data(uname[s], w)
       IN /\ nfetch' = [nfetch EXCEPT ![s] = @ + 1]
          /\ remote' = [remote EXCEPT ![s] = Requests(r.trace) > 0]
          /\ fetchok' = [fetchok EXCEPT ![s] = ProfileOK(r.trace)]
          /\ IF r.kind = "record"
             THEN /\ fetched' = [fetched EXCEPT ![s] =
                                   [kind |-> "record", data |-> r.data]]
                  /\ pc' = [pc EXCEPT ![s] = "store"]
                  /\ UNCHANGED <<outcome, shown>>
             ELSE /\ EndRun(s, IF r.kind = "none" THEN "stopped"
                               ELSE "raise", <<>>)
                  /\ UNCHANGED fetched
  /\ UNCHANGED <<store, pipe, uname, hit, nwrite, wrote, input, result,
                 fpu, runs>>

(* lines 123-124 and 129 on: insert_one of the record, which is rendered *)
Dash_insert_one(s) ==
  /\ pc[s] = "store" /\ pipe[s] = 2
  /\ store' = insert_one(store, fetched[s].data)
  /\ wrote' = [idx |-> Len(store) + 1,
               matched |-> FindIdx(store, uname[s]) > 0,
               data |-> fetched[s].data]
  /\ nwrite' = [nwrite EXCEPT ![s] = @ + 1]
  /\ fetched' = [fetched EXCEPT ![s] = NoRecord]
  /\ EndRun(s, "shown", <<fetched[s].data>>)
  /\ UNCHANGED <<pipe, uname, hit, nfetch, remote, fetchok, input, result,
                 fpu, runs>>

Next ==
  \E s \in Sessions :
    \/ Rec_Warning(s)
    \/ \E u \in Usernames : Rec_KeyError(s, u)
    \/ \E u \in Usernames : Rec_Cached(s, u)
    \/ \E u \in Usernames : Rec_NotInFrame(s, u)
    \/ fetch_and_store_user(s)
    \/ Rec_update_one(s)
    \/ Rec_Reload(s)
    \/ \E u \in Usernames \cup {""} : Dash_find_one(s, u)
    \/ Dash_fetch_user_data(s)
    \/ Dash_insert_one(s)

Spec == Init /\ [][Next]_vars

----------------------------------------------------------------------------
(* The fetchers on their own: Init draws a pipeline, a username and a      *)
(* world; one step runs the fetcher and keeps what it returned.           *)

FetchUsernames == Usernames \cup {"b"}

(* a world in which up to MaxFaults requests fail, over the fixed remote *)
FaultInput(p, u, F, g) ==
  LET repos == RemoteRepos(Lower(u))
  IN [pipeline |-> p, username |-> u,
      w |-> World(Resp(SitesOf(p, repos), F, g), repos, RemoteCommits)]
FaultChoices(p, u) ==
  LET sites == SitesOf(p, RemoteRepos(Lower(u)))
  IN FaultSets(sites, sites, MaxFaults)

(* repository listings for pipeline 2: a repository may lack a name or a   *)
(* language; names are unique                                              *)
RepoNames == {"r1", "Unknown", None}
RepoChoices == { Repo(n, l, FALSE, 1, 1, {}) : n \in RepoNames,
                                               l \in Langs \cup {None} }
UniqueNames(repos) ==
  \A i, j \in 1..Len(repos) : i # j => repos[i].name # repos[j].name
RepoLists ==
  UNION { {r \in [1..n -> RepoChoices] : UniqueNames(r)} : n \in 0..MaxRepos }
CommitChoices == { Commits(n, k) : n \in 0..MaxCommits,
                                   k \in {"none", "last", "nolast", "bad"} }
CommitWorlds ==
  { [r \in {"r1", "r2", "Unknown"} |->
       IF r = "r1" THEN c1 ELSE IF r = "Unknown" THEN c2
       ELSE Commits(0, "none")] : c1 \in CommitChoices, c2 \in CommitChoices }

RepoInputs ==
  { [pipeline |-> 2, username |-> "a",
     w |-> World([s \in Sites2(repos) |-> OK], repos, commits)] :
      repos \in RepoLists, commits \in CommitWorlds }

InitFetch ==
  /\ store = <<>>
  /\ pc = [s \in Sessions |-> "idle"]
  /\ pipe = [s \in Sessions |-> 1]
  /\ uname = [s \in Sessions |-> ""]
  /\ hit = [s \in Sessions |-> FALSE]
  /\ shown = [s \in Sessions |-> <<>>]
  /\ outcome = [s \in Sessions |-> "idle"]
  /\ nfetch = [s \in Sessions |-> 0]
  /\ remote = [s \in Sessions |-> FALSE]
  /\ nwrite = [s \in Sessions |-> 0]
  /\ fetchok = [s \in Sessions |-> FALSE]
  /\ fetched = [s \in Sessions |-> NoRecord]
  /\ wrote = NoWrite
  /\ \/ \E p \in {1, 2}, u \in FetchUsernames :
          \E F \in FaultChoices(p, u) :
            \E g \in [F -> BadScripts] : input = FaultInput(p, u, F, g)
     \/ input \in RepoInputs
  /\ result = Pending
  /\ fpu = NoRounding
  /\ runs = 0

session == <<pc, pipe, uname, hit, shown, outcome, nfetch, remote,
             nwrite, fetchok, fetched, fpu, runs>>

(* the session that calls the fetcher *)
Caller == "s1"

(* fetch_and_store_user lines 80-102 and 105-107: the requests; a record   *)
(* is left to the upsert of line 103, the step Rec_update_one              *)
Run_fetch_and_store_user ==
  /\ result.kind = "pending"
  /\ input.pipeline = 1
  /\ LET r == UserData(input.username, input.w)
     IN /\ result' = [kind |-> IF r.ok THEN "record" ELSE "none",
                      data |-> r.data, trace |-> r.trace]
        /\ IF r.ok
           THEN /\ uname' = [uname EXCEPT ![Caller] = input.username]
                /\ fetched' = [fetched EXCEPT ![Caller] =
                                 [kind |-> "record", data |-> r.data]]
                /\ pc' = [pc EXCEPT ![Caller] = "store"]
           ELSE UNCHANGED <<uname, fetched, pc>>
  /\ UNCHANGED <<store, wrote, input, pipe, hit, shown, outcome, nfetch,
                 remote, nwrite, fetchok, fpu, runs>>

Run_fetch_user_data ==
  /\ result.kind = "pending"
  /\ input.pipeline = 2
  /\ result' = fetch_user_data(input.username, input.w)
  /\ UNCHANGED <<session, store, wrote, input>>

NextFetch ==
  \/ Run_fetch_and_store_user
  \/ Rec_update_one(Caller)
  \/ Run_fetch_user_data

SpecFetch == InitFetch /\ [][NextFetch]_vars

----------------------------------------------------------------------------
(* The analyzer on its own: Init draws a collection, a username and a      *)
(* top_n; one step runs load_data and get_recommendations.                 *)

CorpusDoc(l, ls) ==
  ("Login" :> l) @@ ("Languages" :> {<<x, 1>> : x \in ls}) @@
  ("Profile URL" :> "github.com/" \o l) @@ ("Avatar URL" :> "avatar/" \o l)
(* A target of five languages, against which three users score the same   *)
(* real from different operands: Go alone 1/sqrt(5), four languages with   *)
(* two in common 2/sqrt(20), nine with three in common 3/sqrt(45).         *)
(* Against a target of Go and Py the user of four scores 2/sqrt(8), the    *)
(* real 1/sqrt(2) of a user of Go alone.                                   *)
FiveLangs == Langs \cup {"C", "R", "Js"}
FourLangs == Langs \cup {"Hs", "Ml"}
NineLangs == FourLangs \cup {"C", "q1", "q2", "q3", "q4"}
TargetSets == {{}, Langs, FiveLangs}
CandidateSets == (SUBSET Langs) \cup {FourLangs, NineLangs}
CorpusDocs ==
  { CorpusDoc("a", ls) : ls \in TargetSets }
    \cup { CorpusDoc("b", ls) : ls \in CandidateSets }
Corpora == UNION { [1..n -> CorpusDocs] : n \in 0..MaxCorpus }
TopNs == {0, MaxTopN, DefaultTopN}

InitRec ==
  /\ store \in Corpora
  /\ pc = [s \in Sessions |-> "idle"]
  /\ pipe = [s \in Sessions |-> 1]
  /\ uname = [s \in Sessions |-> ""]
  /\ hit = [s \in Sessions |-> FALSE]
  /\ shown = [s \in Sessions |-> <<>>]
  /\ outcome = [s \in Sessions |-> "idle"]
  /\ nfetch = [s \in Sessions |-> 0]
  /\ remote = [s \in Sessions |-> FALSE]
  /\ nwrite = [s \in Sessions |-> 0]
  /\ fetchok = [s \in Sessions |-> FALSE]
  /\ fetched = [s \in Sessions |-> NoRecord]
  /\ wrote = NoWrite
  /\ input \in { [pipeline |-> 1, username |-> u, top_n |-> n] :
                   u \in {"a"}, n \in TopNs }
  /\ result = Pending
  /\ fpu \in [TiedScores(load_data(store), input.username) -> FloatRoundings]
  /\ runs = 0

Run_get_recommendations ==
  /\ result.kind = "pending"
  /\ LET r == get_recommendations(load_data(store), input.username,
                                  input.top_n)
     IN result' = [kind |-> r.kind, data |-> r.recs, trace |-> <<>>]
  /\ UNCHANGED <<session, store, wrote, input>>

NextRec == Run_get_recommendations

SpecRec == InitRec /\ [][NextRec]_vars

----------------------------------------------------------------------------
(* Properties of the dashboards (specification Spec)                       *)

FetchSucceeded(s) == outcome[s] \in {"shown", "norecs"} /\ nfetch[s] > 0

(* C1: in both pipelines a run whose lookup finds no record for the typed  *)
(* username calls the fetcher exactly once and, when the fetch succeeds,   *)
(* writes to the store exactly once, both before anything is displayed.    *)
C1_MissFetchesOncePersistsOnce ==
  \A s \in Sessions :
    (pc[s] = "done" /\ uname[s] # "" /\ ~hit[s]) =>
      /\ nfetch[s] = 1
      /\ FetchSucceeded(s) => nwrite[s] = 1
      /\ ~FetchSucceeded(s) => nwrite[s] = 0

(* C2: a failed fetch never changes the store.  A step in which a session  *)
(* calls the fetcher and the profile request fails leaves the collection   *)
(* as it was and ends the run with nothing written and nothing left to     *)
(* write; the collection changes only by the one write of a run whose      *)
(* fetch ran to its end with the profile present, and the document written *)
(* carries the fetched fields.                                             *)
C2_FailedFetchKeepsStore ==
  [][ /\ \A s \in Sessions :
           (nfetch'[s] = nfetch[s] + 1 /\ ~fetchok'[s]) =>
             /\ store' = store /\ wrote' = wrote
             /\ nwrite'[s] = 0
             /\ pc'[s] = "done" /\ fetched'[s].kind = "none"
      /\ store' # store =>
           \E s \in Sessions :
             /\ nfetch[s] = 1 /\ fetchok[s]
             /\ fetched[s].kind = "record"
             /\ nwrite[s] = 0 /\ nwrite'[s] = 1
             /\ wrote'.data = fetched[s].data
             /\ wrote'.idx \in 1..Len(store')
             /\ \A f \in DOMAIN wrote'.data :
                  store'[wrote'.idx][f] = wrote'.data[f] ]_vars

(* a run refetched a username that had a record, the profile request       *)
(* failed, and the run stopped without a write                             *)
C2_Witness ==
  \E s \in Sessions :
    /\ pc[s] = "done" /\ outcome[s] = "stopped"
    /\ hit[s] /\ nfetch[s] = 1 /\ ~fetchok[s] /\ nwrite[s] = 0
    /\ FindIdx(store, uname[s]) > 0

(* C4: persisting a record for a login that already has a stored record    *)
(* replaces every field: after the write the stored record of that login   *)
(* is exactly the record written.                                          *)
C4_PutReplacesEveryField ==
  (wrote.idx > 0 /\ wrote.matched) =>
    \A i \in 1..Len(store) :
      Login(store[i]) = Login(wrote.data) =>
        /\ DOMAIN store[i] = DOMAIN wrote.data
        /\ \A f \in DOMAIN wrote.data : store[i][f] = wrote.data[f]

(* C5: the store holds at most one record per Login value.                 *)
C5_OneRecordPerLogin ==
  \A i, j \in 1..Len(store) : i # j => Login(store[i]) # Login(store[j])

(* C6: no entry of the list get_recommendations returns has the Login of   *)
(* the target user.                                                        *)
C6_TargetNotRecommended ==
  \A s \in Sessions :
    pipe[s] = 1 =>
      \A n \in 1..Len(shown[s]) : shown[s][n].Login # uname[s]

(* C10: the fetcher is called only on a store miss: a run whose lookup     *)
(* finds a record for the typed username sends no request to the remote    *)
(* API and writes nothing.                                                 *)
C10_HitServedFromStore ==
  \A s \in Sessions :
    hit[s] => nfetch[s] = 0 /\ ~remote[s] /\ nwrite[s] = 0

----------------------------------------------------------------------------
(* Properties of the fetchers (specification SpecFetch)                    *)

Tr == result.trace
EventsOf(site) == {i \in 1..Len(Tr) : Tr[i].site = site}
FirstAttempt(i) ==
  Tr[i].op = "get" /\ \A j \in 1..(i - 1) : Tr[j].site # Tr[i].site

(* event i, a 403, is followed by one 60 s sleep and one retry, no more *)
RetriedOnce(i) ==
  /\ i + 2 <= Len(Tr)
  /\ Tr[i + 1].op = "sleep" /\ Tr[i + 1].site = Tr[i].site
  /\ Tr[i + 1].secs = Cooldown
  /\ Tr[i + 2].op = "get" /\ Tr[i + 2].site = Tr[i].site
  /\ EventsOf(Tr[i].site) = {i, i + 1, i + 2}

(* the status that decides the request first sent as event i *)
FinalStatus(i) ==
  LET last == CHOOSE j \in EventsOf(Tr[i].site) :
                \A k \in EventsOf(Tr[i].site) : k <= j
  IN Tr[last].status

(* what the fetcher returns when every request answers 200 *)
AllOK == [input.w EXCEPT !.resp = [s \in DOMAIN input.w.resp |-> OK]]
Undisturbed ==
  IF input.pipeline = 1 THEN UserData(input.username, AllOK).data
  ELSE fetch_user_data(input.username, AllOK).data

(* every other request of the run was answered 200 at once *)
OnlyFault(i) ==
  \A j \in 1..Len(Tr) :
    (Tr[j].op = "get" /\ Tr[j].site # Tr[i].site) => Tr[j].status = "200"

(* the request's result is the one of its final answer: the profile        *)
(* decides whether there is a record, a list request fills its field, and  *)
(* a request that succeeded in the end, all others succeeding, leaves the  *)
(* record of an undisturbed fetch                                          *)
ListField(site) ==
  CASE site[1] = "followers" -> "Followers List"
    [] site[1] = "following" -> "Following List"
    [] site[1] = "starred" -> "Starred Repositories"
    [] site[1] = "subscriptions" -> "Subscriptions"
    [] site[1] = "orgs" -> "Organizations"
    [] OTHER -> None
ListBody(site, l) ==
  CASE site[1] = "followers" -> RemoteFollowers(l)
    [] site[1] = "following" -> RemoteFollowing(l)
    [] site[1] = "starred" -> RemoteStarred(l)
    [] site[1] = "subscriptions" -> RemoteSubscriptions(l)
    [] OTHER -> RemoteOrgs(l)
ResultFollows(i) ==
  LET site == Tr[i].site
  IN /\ site[1] = "user" =>
          (result.kind = "record" <=> FinalStatus(i) = "200")
     /\ (input.pipeline = 1 /\ ListField(site) # None
           /\ result.kind = "record") =>
          result.data[ListField(site)] =
            IF FinalStatus(i) = "200"
            THEN ListBody(site, Lower(input.username)) ELSE <<>>
     /\ (FinalStatus(i) = "200" /\ OnlyFault(i)) =>
          result.kind = "record" /\ result.data = Undisturbed

(* C3: every request the fetcher sends that is answered 403 is followed by *)
(* exactly one 60 s suspension and exactly one retry of the same request;  *)
(* the retry's answer is the request's result, and a retry that fails is   *)
(* not followed by a second suspension or a second retry.                  *)
C3_Every403RetriedOnce ==
  \A i \in 1..Len(Tr) :
    (FirstAttempt(i) /\ Tr[i].status = "403") =>
      RetriedOnce(i) /\ ResultFollows(i)

(* the follow-up requests of the claim, and the fields each one fills *)
FollowUps ==
  {"repos", "followers", "following", "starred", "subscriptions", "orgs"}
FieldsOf(site) ==
  IF input.pipeline = 1
  THEN CASE site = <<"repos", 1>> -> {"Languages"}
         [] site = <<"repos", 2>> -> {"Total Commits"}
         [] OTHER -> {ListField(site)}
  ELSE IF site[1] = "starred" THEN {"Starred Repositories"}
  ELSE {"Languages", "Commits Per Repo", "Stars Per Repo",
        "Stars Per Language", "Commits Per Language", "Commit Dates",
        "Total Commits"}
EmptyOf(f) ==
  IF f = "Total Commits" THEN 0
  ELSE IF f \in {"Languages", "Commits Per Repo", "Stars Per Repo",
                 "Stars Per Language", "Commits Per Language"} THEN {}
  ELSE <<>>
Failed == {Tr[i].site : i \in {j \in 1..Len(Tr) :
                                 FirstAttempt(j) /\ FinalStatus(j) # "200"}}

(* C9: when the profile request succeeds and exactly one follow-up request *)
(* fails, the fetch still returns a record in which the fields of that     *)
(* request are empty and every other field is what its request returned.   *)
C9_FollowUpFailureDegrades ==
  \A site \in Failed :
    (ProfileOK(Tr) /\ Failed = {site} /\ site[1] \in FollowUps) =>
      /\ result.kind = "record"
      /\ \A f \in DOMAIN result.data :
           result.data[f] = IF f \in FieldsOf(site) THEN EmptyOf(f)
                            ELSE Undisturbed[f]

RECURSIVE SumOver(_, _)
SumOver(names, d) ==
  IF names = {} THEN 0
  ELSE LET n == CHOOSE x \in names : TRUE
       IN DictGet(d, n, 0) + SumOver(names \ {n}, d)

(* C8: in the record fetch_user_data builds, the commit count of every     *)
(* language is the sum of the per-repository commit counts of the          *)
(* repositories of that language.                                          *)
C8_CommitsPerLanguageIsSum ==
  (result.kind = "record" /\ input.pipeline = 2) =>
    \A lang \in Keys(result.data["Languages"]) :
      DictGet(result.data["Commits Per Language"], lang, 0) =
        SumOver({RepoName(input.w.repos[i]) :
                   i \in {j \in 1..Len(input.w.repos) :
                            RepoLang(input.w.repos[j]) = lang}},
                result.data["Commits Per Repo"])

----------------------------------------------------------------------------
(* Properties of the analyzer (specification SpecRec)                      *)

Rows == load_data(store).rows
TargetRow ==
  LET rows == Rows
  IN CHOOSE i \in 1..Len(rows) :
       /\ Login(rows[i]) = input.username
       /\ \A j \in 1..(i - 1) : Login(rows[j]) # input.username
Candidates == (1..Len(Rows)) \ {TargetRow}

(* The cosine similarity of row i to the target is k / sqrt(ab), k the     *)
(* number of common languages and ab the product of the two numbers of     *)
(* languages; err is the rounding of the float the code computes for it.   *)
Scores ==
  LET rows == Rows
      target == rows[TargetRow]["LanguagesList"]
  IN [i \in 1..Len(rows) |->
        LET ops == [k |-> Cardinality(target \cap rows[i]["LanguagesList"]),
                    ab |-> Cardinality(target)
                             * Cardinality(rows[i]["LanguagesList"])]
        IN [k |-> ops.k, ab |-> ops.ab,
            err |-> IF ops \in DOMAIN fpu THEN fpu[ops] ELSE 0]]
Higher(sc, i, j) == sc[i].k * sc[i].k * sc[j].ab > sc[j].k * sc[j].k * sc[i].ab
EqualScore(sc, i, j) ==
  sc[i].k * sc[i].k * sc[j].ab = sc[j].k * sc[j].k * sc[i].ab
FloatHigher(sc, i, j) ==
  Higher(sc, i, j) \/ (EqualScore(sc, i, j) /\ sc[i].err > sc[j].err)
FloatEqual(sc, i, j) == EqualScore(sc, i, j) /\ sc[i].err = sc[j].err

(* row i comes before row j in the stable descending order of the scores *)
Precedes(sc, i, j) == Higher(sc, i, j) \/ (EqualScore(sc, i, j) /\ i < j)
(* row i comes before row j in the stable descending order of the floats *)
FloatPrecedes(sc, i, j) ==
  FloatHigher(sc, i, j) \/ (FloatEqual(sc, i, j) /\ i < j)
Returned == {result.data[n].row : n \in 1..Len(result.data)}

(* C7: get_recommendations returns the first top_n candidates of the       *)
(* stable descending-score order: min(top_n, candidates) entries, scores   *)
(* non-increasing, two candidates with equal score in corpus order,        *)
(* nothing left out that comes before an entry.                            *)
C7_TopNOfStableOrder ==
  result.kind = "list" =>
    LET sc == Scores
        cands == Candidates
        recs == result.data
    IN /\ Len(recs) = Min(input.top_n, Cardinality(cands))
       /\ Returned \subseteq cands
       /\ \A n, m \in 1..Len(recs) :
            n < m =>
              /\ Precedes(sc, recs[n].row, recs[m].row)
              /\ recs[n].SimilarityScore >= recs[m].SimilarityScore
       /\ \A n \in 1..Len(recs) :
            \A c \in cands \ Returned : Precedes(sc, recs[n].row, c)

(* C7 amended: get_recommendations returns the first top_n candidates of   *)
(* the stable descending order of the floats the code computes:            *)
(* min(top_n, candidates) entries, displayed scores non-increasing, two    *)
(* candidates whose floats are equal in corpus order, nothing left out     *)
(* that comes before an entry.  Two candidates whose scores are the same   *)
(* real but whose floats differ are in the order of the floats.            *)
C7_TopNOfFloatOrder ==
  result.kind = "list" =>
    LET sc == Scores
        cands == Candidates
        recs == result.data
    IN /\ Len(recs) = Min(input.top_n, Cardinality(cands))
       /\ Returned \subseteq cands
       /\ \A n, m \in 1..Len(recs) :
            n < m =>
              /\ FloatPrecedes(sc, recs[n].row, recs[m].row)
              /\ recs[n].SimilarityScore >= recs[m].SimilarityScore
       /\ \A n \in 1..Len(recs) :
            \A c \in cands \ Returned : FloatPrecedes(sc, recs[n].row, c)

(* a truncated list in which two candidates of the same real score and     *)
(* the same displayed score stand against their corpus order, a third      *)
(* candidate left out                                                      *)
C7_Witness ==
  /\ result.kind = "list"
  /\ Len(result.data) = input.top_n
  /\ input.top_n < Cardinality(Candidates)
  /\ \E n, m \in 1..Len(result.data) :
       /\ n < m
       /\ EqualScore(Scores, result.data[n].row, result.data[m].row)
       /\ result.data[n].SimilarityScore = result.data[m].SimilarityScore
       /\ result.data[n].row > result.data[m].row

====
